---- MODULE Spec2Model ----
(***************************************************************************)
(* The IAS15 step routine of rebound (src/src/integrator_ias15.c):         *)
(* integrator_ias15_step with its hierarchical sub-step bookkeeping, the   *)
(* predictor-corrector loop, the commit of the class just advanced and the *)
(* step controller.                                                        *)
(*                                                                         *)
(* Numbers.  A double is modelled by an integer, or by NaN.  Time is        *)
(* counted in ticks: integrator_max_dt is a multiple of HScale^2 ticks and *)
(* the Gauss-Radau spacings h[] are replaced by increasing multiples of    *)
(* 1/HScale close to them, so that every step length the code forms is a   *)
(* whole number of ticks and dt, t, tdone are computed without rounding.   *)
(* The compensated sums of positions and velocities round as floating      *)
(* point does, to MantBits significant bits (a double has 53).             *)
(* One vector component per particle is modelled (index 3*i of the flat    *)
(* arrays); the code treats the three components alike.                    *)
(*                                                                         *)
(* The force kernel (gravity_calculate_acceleration and                    *)
(* problem_additional_forces) is external: what it returns is an input of  *)
(* the model, drawn from small sets.                                       *)
(***************************************************************************)
EXTENDS Integers, Sequences, FiniteSets, TLC

\* ------------------------------------------------------------------------
\* Values of type double
\* ------------------------------------------------------------------------

\* Significant bits of a rounded sum.
MantBits == 4

\* IEEE not-a-number: a value outside the range of the modelled numbers.
NaN == 0 - 1073741824
\* The indeterminate content of a cache entry xpast[l][n] never written.
Unset == 0 - 1073741823
\* A position or velocity predicted at a Gauss-Radau node inside the step.
Transient == 0 - 1073741822

FAdd(x, y) == IF x = NaN \/ y = NaN THEN NaN ELSE x + y
FSub(x, y) == IF x = NaN \/ y = NaN THEN NaN ELSE x - y
FMul(x, y) == IF x = NaN \/ y = NaN THEN NaN ELSE x * y
\* x / c for a literal c; the model's values make the quotient exact.
FDiv(x, c) == IF x = NaN THEN NaN ELSE x \div c

\* isnormal(x): neither zero nor NaN (the model has no subnormals, no inf).
IsNormal(x) == x # 0 /\ x # NaN

Abs(x) == IF x < 0 THEN 0 - x ELSE x

\* Round to nearest, ties to even, to MantBits significant bits: the
\* rounding of a double operation, with the 53 bits of a double scaled down.
RECURSIVE Ulp(_, _)
Ulp(a, u) == IF a < (2 ^ MantBits) * u THEN u ELSE Ulp(a, 2 * u)

Fl(x) ==
    IF x = NaN THEN NaN
    ELSE LET a == Abs(x)
             u == Ulp(a, 1)
             q == a \div u
             r == a % u
             m == IF 2 * r > u \/ (2 * r = u /\ q % 2 = 1)
                  THEN (q + 1) * u ELSE q * u
         IN IF x < 0 THEN 0 - m ELSE m

RECURSIVE GCD(_, _)
GCD(m, n) == IF n = 0 THEN Abs(m) ELSE GCD(n, m % n)

\* ------------------------------------------------------------------------
\* Program constants
\* ------------------------------------------------------------------------

\* h[0..8], the Gauss-Radau spacings, in units of 1/HScale (H[n+1] is h[n]).
HScale == 16
H == <<0, 1, 3, 6, 9, 12, 14, 15, 16>>

\* Iterations after which the predictor-corrector loop gives up.
ItMax == 12
\* integrator_iterations_warning.
WarnAt == 10
\* The clamp of a particle's dtexp.
MinExp == -2
MaxExp == 0
\* Sub-steps per level.
SubSteps == 8

\* The convergence metric predictor_corrector_error is kept as the rank of
\* its value in an increasing scale of doubles: rank 0 is 0.0, rank 1 a
\* normal value below 1e-16, ranks from PCE_TOL on are values >= 1e-16.
PCE_TOL == 2
\* The rank of 2.0, the first predictor_corrector_error_last.
PCE_LAST_INIT == PCE_TOL + 1
\* The rank of 1e300, the first predictor_corrector_error.
PCE_INIT == PCE_TOL + ItMax + 1

\* ------------------------------------------------------------------------
\* Bounds of the model
\* ------------------------------------------------------------------------

\* Steps of a run whose kernel is drawn freely at every iteration.
MaxSteps == 3
\* Steps of a run whose kernel behaves in one fixed way per step.
MaxLongSteps == 14
\* Steps of a run with zero forces and particles of several classes.
MaxHierSteps == 80
\* Steps of a run of one freely drifting particle.
MaxDriftSteps == 12
\* Largest rank of the metric a freely drawn kernel produces.
MaxFreeLevel == 3

VARIABLES
    \* tunables
    integrator_epsilon, integrator_min_dt, integrator_max_dt,
    integrator_force_is_velocitydependent, problem_additional_forces,
    \* the environment: the kernel behaviours that may occur for each
    \* particle, the run length, the particle store the run started from
    kmodes, budget, initial,
    \* globals of main.c and the particle store
    t, dt, particles,
    \* integrator state
    N3allocated, dtexp, dtexp_substep, dtexp_min,
    b, e, br, er, x0, v0, a0, at, csx, csv,
    predictor_corrector_error, predictor_corrector_error_last, iterations,
    integrator_iterations_max_exceeded,
    \* number of warnings written to stderr
    warnings,
    \* position in integrator_ias15_step: "idle" between calls, "loop" inside
    pc,
    \* the kernel's behaviour for each particle during the current step
    kernel,
    \* history: completed steps; steps that ran out of iterations; steps in
    \* which the kernel returned NaN to a particle of the current class; for
    \* each particle the number of its advances, that of every particle at
    \* its last advance, and the advances between its last two advances
    steps, exceededSteps, nanSteps, nadv, mark, gap

cfgvars == <<integrator_epsilon, integrator_min_dt, integrator_max_dt,
             integrator_force_is_velocitydependent, problem_additional_forces,
             kmodes, budget, initial>>
histvars == <<steps, exceededSteps, nanSteps, nadv, mark, gap>>
vars == <<cfgvars, t, dt, particles, N3allocated, dtexp, dtexp_substep,
          dtexp_min, b, e, br, er, x0, v0, a0, at, csx, csv,
          predictor_corrector_error, predictor_corrector_error_last,
          iterations, integrator_iterations_max_exceeded, warnings, pc,
          kernel, histvars>>

N == Len(particles)
Particle == 1..N
Levels == 0..(1 - MinExp)
Zero7 == <<0, 0, 0, 0, 0, 0, 0>>

\* ------------------------------------------------------------------------
\* dt = integrator_max_dt * prod_{i < -dtexp} (h[st+1] - h[st])
\* ------------------------------------------------------------------------
RECURSIVE SubProduct(_, _, _, _)
SubProduct(acc, i, ex, sub) ==
    IF i >= 0 - ex THEN acc
    ELSE SubProduct((acc * (H[sub[i] + 2] - H[sub[i] + 1])) \div HScale,
                    i + 1, ex, sub)

StepLength(maxdt, ex, sub) == SubProduct(maxdt, 0, ex, sub)

\* ------------------------------------------------------------------------
\* Predicted B values: e_j = q^(j+1) * (weighted sum of br), q = dt/dtdone.
\* The product is kept as <<m, qn, qd>>: the weighted sum m and q = qn/qd in
\* lowest terms; it is the number m when qn = qd, and 0 when m = 0.
\* ------------------------------------------------------------------------
QScaled(m, num, den) ==
    IF m = 0 THEN <<0, 1, 1>>
    ELSE IF m = NaN THEN <<NaN, 1, 1>>
    ELSE <<m, num \div GCD(num, den), den \div GCD(num, den)>>

EZero == <<0, 1, 1>>
EZero7 == <<EZero, EZero, EZero, EZero, EZero, EZero, EZero>>

W(x, c) == FMul(x, c)
Sum7(s) == FAdd(s[1], FAdd(s[2], FAdd(s[3], FAdd(s[4], FAdd(s[5], FAdd(s[6], s[7]))))))

\* The weighted sums of lines 197-203; r is br[0..6][k] as r[1..7].
EWeights(r) ==
    << Sum7(<<W(r[7], 7), W(r[6], 6), W(r[5], 5), W(r[4], 4), W(r[3], 3), W(r[2], 2), r[1]>>),
       Sum7(<<W(r[7], 21), W(r[6], 15), W(r[5], 10), W(r[4], 6), W(r[3], 3), r[2], 0>>),
       Sum7(<<W(r[7], 35), W(r[6], 20), W(r[5], 10), W(r[4], 4), r[3], 0, 0>>),
       Sum7(<<W(r[7], 35), W(r[6], 15), W(r[5], 5), r[4], 0, 0, 0>>),
       Sum7(<<W(r[7], 21), W(r[6], 6), r[5], 0, 0, 0, 0>>),
       Sum7(<<W(r[7], 7), r[6], 0, 0, 0, 0, 0>>),
       r[7] >>

PredictE(r, num, den) == [j \in 1..7 |-> QScaled(EWeights(r)[j], num, den)]

\* b at the start of the step: lines 206-212 set every coefficient to 0.
PredictB(ej, r, q) == Zero7

\* ------------------------------------------------------------------------
\* The force kernel (external).  Its behaviour towards a particle during a
\* step is one of:
\*   "zero"   zero acceleration at the entry and at every node;
\*   "nan"    NaN acceleration at the entry and at every node;
\*   "stiff"  accelerations that make b[6] jump back and forth while the
\*            metric falls by one rank per iteration (a loop that never
\*            converges);
\*   "free"   any of the accelerations below, drawn anew at each iteration.
\* An outcome of one iteration (the seven kernel calls of n = 1..7) is
\* [at, tmp, rank]: the acceleration at node 7, the change tmp of g[6] (and
\* of b[6]) it causes, and the rank of fabs(tmp/at) when that is normal.
\* Of the seven coefficients only b[6] is followed through the iteration;
\* b[0..5] stay 0 unless tmp is NaN, which makes all seven NaN.
\* ------------------------------------------------------------------------
Modes == {"zero", "nan", "stiff", "free"}

\* The acceleration the particle carries when the step is entered.
KernelEntry(mode) ==
    CASE mode = "zero" -> {0}
      [] mode = "nan" -> {NaN}
      [] mode = "stiff" -> {0}
      [] OTHER -> {16}

FreeOutcomes(b6) ==
    { [at |-> a, tmp |-> d, rank |-> r] :
        a \in {16}, d \in {0 - b6, 72 - b6}, r \in 0..MaxFreeLevel }

KernelNode(mode, it, b6) ==
    CASE mode = "zero" -> {[at |-> 0, tmp |-> 0, rank |-> 0]}
      [] mode = "nan" -> {[at |-> NaN, tmp |-> NaN, rank |-> 0]}
      [] mode = "stiff" ->
            {[at |-> 16, tmp |-> (IF b6 = 0 THEN 72 ELSE 0 - 72),
              rank |-> PCE_TOL + ItMax - it]}
      [] OTHER ->
            { o \in FreeOutcomes(b6) :
                (o.rank # 0) <=> (IsNormal(o.tmp) /\ IsNormal(o.at)) }

\* ------------------------------------------------------------------------
\* The predictor-corrector loop: lines 256-283 and 418-444
\* ------------------------------------------------------------------------

\* errork of line 437 counts only if isnormal(errork) (line 438).
ErrorK(tmp, ak, rank) == IF IsNormal(tmp) /\ IsNormal(ak) THEN rank ELSE 0

MaxOf(S) == CHOOSE x \in S : \A y \in S : y <= x
MinOf(S) == CHOOSE x \in S : \A y \in S : x <= y

\* Faulty variant of Converged: a metric of 0 does not count as converged.
MutConverged(err) == 0 < err /\ err < PCE_TOL

\* line 265
Converged(err) == err < PCE_TOL
\* Faulty variant of Oscillating: the test applies from the second
\* iteration on.
MutOscillating(it, last, err) == it > 1 /\ last <= err

\* line 268
Oscillating(it, last, err) == it > 2 /\ last <= err
\* line 271
Exhausted(it) == it >= ItMax
\* Faulty variant of WarnNow: every count from the threshold on warns.
MutWarnNow(count) == count >= WarnAt

\* line 274
WarnNow(count) == count = WarnAt

LoopExit ==
    \/ Converged(predictor_corrector_error)
    \/ Oscillating(iterations, predictor_corrector_error_last,
                   predictor_corrector_error)
    \/ Exhausted(iterations)

ExitReason ==
    IF Converged(predictor_corrector_error) THEN "conv"
    ELSE IF Oscillating(iterations, predictor_corrector_error_last,
                        predictor_corrector_error) THEN "osc"
    ELSE "max"

InClass(i) == particles[i].dtexp = dtexp

\* Velocity predicted at node n (lines 318-337); s[0] = dt*h[n].  The weights
\* of b are not formed: with b = 0 the prediction is csv + s[0]*a0 + v0.
PredictV(i, n) ==
    IF b[i] = Zero7
    THEN FAdd(FAdd(csv[i], FDiv(FMul(dt * H[n + 1], a0[i]), HScale)), v0[i])
    ELSE IF b[i][7] = NaN THEN NaN ELSE Transient

\* Position handed to the kernel at node n (lines 287-313).
PredictX(i, n) ==
    IF particles[i].dtexp < dtexp
    THEN particles[i].xpast[1 - dtexp][n]
    ELSE Transient

\* ------------------------------------------------------------------------
\* Commit: lines 450-505
\* ------------------------------------------------------------------------
PosIncrement(bk, ak, vk, d) ==
    FAdd(FMul(FAdd(FDiv(bk[7], 72), FAdd(FDiv(bk[6], 56), FAdd(FDiv(bk[5], 42),
         FAdd(FDiv(bk[4], 30), FAdd(FDiv(bk[3], 20), FAdd(FDiv(bk[2], 12),
         FAdd(FDiv(bk[1], 6), FDiv(ak, 2)))))))), d * d),
         FMul(vk, d))

VelIncrement(bk, ak, d) ==
    FMul(FAdd(FDiv(bk[7], 8), FAdd(FDiv(bk[6], 7), FAdd(FDiv(bk[5], 6),
         FAdd(FDiv(bk[4], 5), FAdd(FDiv(bk[3], 4), FAdd(FDiv(bk[2], 3),
         FAdd(FDiv(bk[1], 2), ak))))))), d)

\* Faulty variant of Kahan: the residual is not reduced by what was added.
MutKahan(a, cs, inc) == <<FAdd(a, FAdd(cs, inc)), FAdd(cs, inc)>>

\* a = x0; cs += inc; x0 = a + cs; cs += a - x0.  Returns <<x0, cs>>.
Kahan(a, cs, inc) ==
    LET cs1 == Fl(FAdd(cs, Fl(inc)))
        xn == Fl(FAdd(a, cs1))
    IN <<xn, Fl(FAdd(cs1, Fl(FSub(a, xn))))>>

\* Faulty variant of Tdone: the step length is left out.
MutTdone(tt, d) == tt

\* line 495
Tdone(tt, d) == tt + d
\* line 496
Dtdone(d) == d

\* ------------------------------------------------------------------------
\* Step controller: lines 510-536
\* ------------------------------------------------------------------------

\* Faulty variant of ClampExp: the lower clamp is missing.
MutClampExp(raw) == IF raw > MaxExp THEN MaxExp ELSE raw

\* lines 526-531, applied to floor(log(dtparticle/integrator_max_dt)/log(8.))
ClampExp(raw) ==
    IF raw > MaxExp THEN MaxExp ELSE IF raw < MinExp THEN MinExp ELSE raw

\* The values floor(log_8(...)) may take; what it is depends on the
\* magnitudes of integrator_epsilon, b[6] and at, which the kernel decides.
RawExps == (MinExp - 1)..(MaxExp + 1)

\* errork_max of lines 513-521 is normal
ErrMaxNormal(b6, ak) == IsNormal(b6) /\ IsNormal(ak)

NewExp(i, raw) ==
    IF integrator_epsilon > 0 /\ InClass(i)
    THEN IF ErrMaxNormal(b[i][7], at[i]) THEN ClampExp(raw) ELSE 0
    ELSE particles[i].dtexp

\* Faulty variant of MinExpOf: the lowest class there is, occupied or not.
MutMinExpOf(exps) == MinExp

\* lines 538-544; isnormal(dtexp) holds of every non-zero int
MinExpOf(exps) ==
    MinOf({0} \cup {exps[i] : i \in DOMAIN exps})

\* ------------------------------------------------------------------------
\* Sub-step bookkeeping: lines 545-564.  Returns <<dtexp, dtexp_substep, t>>.
\* ------------------------------------------------------------------------
\* Faulty variant of Advance: a completed level below the outermost goes
\* back to dtexp_min instead of one level up.
MutAdvanceDown(ex, sub, tt, d, exmin, maxdt) ==
    LET l == 0 - ex
        cnt == sub[l] + 1
        t1 == tt + d
    IN IF cnt = SubSteps
       THEN <<exmin, [sub EXCEPT ![l] = 0], t1>>
       ELSE <<exmin, [sub EXCEPT ![l] = cnt], t1>>

\* Faulty variant of Advance: the time is not taken back when a level
\* below the outermost is completed.
MutAdvanceNoRewind(ex, sub, tt, d, exmin, maxdt) ==
    LET l == 0 - ex
        cnt == sub[l] + 1
        t1 == tt + d
    IN IF cnt = SubSteps
       THEN LET sub0 == [sub EXCEPT ![l] = 0]
            IN IF ex + 1 > 0 THEN <<exmin, sub0, t1>> ELSE <<ex + 1, sub0, t1>>
       ELSE <<exmin, [sub EXCEPT ![l] = cnt], t1>>

\* Faulty variant of Advance: a level is left after 7 sub-steps.
MutAdvance(ex, sub, tt, d, exmin, maxdt) ==
    LET l == 0 - ex
        cnt == sub[l] + 1
        t1 == tt + d
    IN IF cnt = SubSteps - 1
       THEN LET sub0 == [sub EXCEPT ![l] = 0]
            IN IF ex + 1 > 0
               THEN <<exmin, sub0, t1>>
               ELSE <<ex + 1, sub0, t1 - StepLength(maxdt, ex + 1, sub0)>>
       ELSE <<exmin, [sub EXCEPT ![l] = cnt], t1>>

Advance(ex, sub, tt, d, exmin, maxdt) ==
    LET l == 0 - ex
        cnt == sub[l] + 1
        t1 == tt + d
    IN IF cnt = SubSteps
       THEN LET sub0 == [sub EXCEPT ![l] = 0]
            IN IF ex + 1 > 0
               THEN <<exmin, sub0, t1>>
               ELSE <<ex + 1, sub0, t1 - StepLength(maxdt, ex + 1, sub0)>>
       ELSE <<exmin, [sub EXCEPT ![l] = cnt], t1>>

\* ------------------------------------------------------------------------
\* Initial states: a particle store of fresh particles (t = 0, no step done,
\* nothing cached) and the integrator's static initialisers (lines 64-70,
\* 84-99, 128-130).
\* ------------------------------------------------------------------------
FreshParticle(c, v, x) ==
    [x |-> x, v |-> v, a |-> 0, tdone |-> 0, dtdone |-> 0, dtexp |-> c,
     xpast |-> [l \in Levels |-> [n \in 0..7 |-> Unset]]]

InitWith(cls, vel, pos, eps, mindt, maxdt, veldep, addf, modes, bud) ==
    /\ integrator_epsilon = eps
    /\ integrator_min_dt = mindt
    /\ integrator_max_dt = maxdt
    /\ integrator_force_is_velocitydependent = veldep
    /\ problem_additional_forces = addf
    /\ kmodes = modes
    /\ budget = bud
    /\ initial = [i \in 1..Len(cls) |-> FreshParticle(cls[i], vel[i], pos[i])]
    /\ t = 0
    /\ dt = 0
    /\ particles = [i \in 1..Len(cls) |-> FreshParticle(cls[i], vel[i], pos[i])]
    /\ N3allocated = 0
    /\ dtexp = 0
    /\ dtexp_substep = [l \in Levels |-> 0]
    /\ dtexp_min = 0
    /\ b = [i \in 1..Len(cls) |-> Zero7]
    /\ e = [i \in 1..Len(cls) |-> EZero7]
    /\ br = [i \in 1..Len(cls) |-> Zero7]
    /\ er = [i \in 1..Len(cls) |-> EZero7]
    /\ x0 = [i \in 1..Len(cls) |-> 0]
    /\ v0 = [i \in 1..Len(cls) |-> 0]
    /\ a0 = [i \in 1..Len(cls) |-> 0]
    /\ at = [i \in 1..Len(cls) |-> 0]
    /\ csx = [i \in 1..Len(cls) |-> 0]
    /\ csv = [i \in 1..Len(cls) |-> 0]
    /\ predictor_corrector_error = PCE_INIT
    /\ predictor_corrector_error_last = PCE_LAST_INIT
    /\ iterations = 0
    /\ integrator_iterations_max_exceeded = 0
    /\ warnings = 0
    /\ pc = "idle"
    /\ kernel = [i \in 1..Len(cls) |-> "zero"]
    /\ steps = 0
    /\ exceededSteps = 0
    /\ nanSteps = 0
    /\ nadv = [i \in 1..Len(cls) |-> 0]
    /\ mark = [i \in 1..Len(cls) |-> [j \in 1..Len(cls) |-> 0]]
    /\ gap = [i \in 1..Len(cls) |-> [j \in 1..Len(cls) |-> 0]]

Classes == MinExp..MaxExp
ClassVecs1 == {<<c>> : c \in Classes}
ClassVecs2 == Classes \X Classes
ClassVecs3 == Classes \X Classes \X Classes
Ones(cls) == [i \in 1..Len(cls) |-> 1]
Zeros(cls) == [i \in 1..Len(cls) |-> 0]
Only(cls, mode) == [i \in 1..Len(cls) |-> {mode}]

\* ------------------------------------------------------------------------
\* integrator_ias15_step, entry: lines 133-258
\* ------------------------------------------------------------------------
StepBegin ==
    /\ pc = "idle"
    /\ steps < budget
    /\ \E km \in {f \in [Particle -> Modes] : \A i \in Particle : f[i] \in kmodes[i]} :
       \E acc \in [Particle -> {0, 16, NaN}] :
         /\ \A i \in Particle : acc[i] \in KernelEntry(km[i])
         /\ LET fresh == 3 * N > N3allocated
                br1 == IF fresh THEN [i \in Particle |-> Zero7] ELSE br
                d == StepLength(integrator_max_dt, dtexp, dtexp_substep)
                e1 == [i \in Particle |->
                         IF IsNormal(particles[i].dtdone)
                         THEN PredictE(br1[i], d, particles[i].dtdone)
                         ELSE EZero7]
            IN /\ N3allocated' = (IF fresh THEN 3 * N ELSE N3allocated)
               /\ br' = br1
               /\ er' = (IF fresh THEN [i \in Particle |-> EZero7] ELSE er)
               /\ csx' = (IF fresh THEN [i \in Particle |-> 0] ELSE csx)
               /\ csv' = (IF fresh THEN [i \in Particle |-> 0] ELSE csv)
               /\ dt' = d
               /\ e' = e1
               /\ b' = [i \in Particle |->
                         IF IsNormal(particles[i].dtdone)
                         THEN PredictB(e1[i], br1[i], er[i])
                         ELSE Zero7]
               /\ kernel' = km
               /\ particles' = [i \in Particle |->
                                  [particles[i] EXCEPT !.a = acc[i]]]
               /\ x0' = [i \in Particle |-> particles[i].x]
               /\ v0' = [i \in Particle |-> particles[i].v]
               /\ a0' = acc
    /\ predictor_corrector_error' = PCE_INIT
    /\ predictor_corrector_error_last' = PCE_LAST_INIT
    /\ iterations' = 0
    /\ pc' = "loop"
    /\ UNCHANGED <<cfgvars, t, dtexp, dtexp_substep, dtexp_min, at,
                   integrator_iterations_max_exceeded, warnings, histvars>>

\* What the kernel returns to the particles in iteration it: an outcome for
\* every particle.  Only the acceleration matters for a particle outside the
\* current class (lines 344-349 skip it).
KernelOf(i, it) ==
    IF InClass(i) THEN KernelNode(kernel[i], it, b[i][7])
    ELSE { [at |-> o.at, tmp |-> 0, rank |-> 0] :
             o \in KernelNode(kernel[i], it, 0) }

KernelCalls(it) ==
    { f \in [Particle -> UNION {KernelOf(i, it) : i \in Particle}] :
        \A i \in Particle : f[i] \in KernelOf(i, it) }

\* ------------------------------------------------------------------------
\* One iteration of the predictor-corrector loop: lines 279-446
\* ------------------------------------------------------------------------
Iterate ==
    /\ pc = "loop"
    /\ ~LoopExit
    /\ \E out \in KernelCalls(iterations + 1) :
         /\ particles' = [i \in Particle |->
               [particles[i] EXCEPT
                   !.x = PredictX(i, 7),
                   !.v = IF problem_additional_forces
                            /\ integrator_force_is_velocitydependent
                         THEN PredictV(i, 7) ELSE @,
                   !.a = out[i].at]]
         /\ at' = [i \in Particle |-> IF InClass(i) THEN out[i].at ELSE at[i]]
         /\ b' = [i \in Particle |->
                    IF InClass(i)
                    THEN [j \in 1..7 |->
                            FAdd(b[i][j], FMul(out[i].tmp, IF j = 7 THEN 1 ELSE 0))]
                    ELSE b[i]]
         /\ predictor_corrector_error' =
               MaxOf({0} \cup {ErrorK(out[i].tmp, out[i].at, out[i].rank) :
                                 i \in {k \in Particle : InClass(k)}})
    /\ predictor_corrector_error_last' = predictor_corrector_error
    /\ iterations' = iterations + 1
    /\ UNCHANGED <<cfgvars, t, dt, N3allocated, dtexp, dtexp_substep,
                   dtexp_min, e, br, er, x0, v0, a0, csx, csv,
                   integrator_iterations_max_exceeded, warnings, pc, kernel,
                   histvars>>

\* ------------------------------------------------------------------------
\* Leaving the loop, commit, step controller, bookkeeping: lines 265-278 and
\* 449-565
\* ------------------------------------------------------------------------
\* the controller's logarithm is read only for a particle of the current
\* class, under a positive epsilon, whose error measure is normal
RawFor(i) ==
    IF integrator_epsilon > 0 /\ InClass(i) /\ ErrMaxNormal(b[i][7], at[i])
    THEN RawExps ELSE {0}

RawChoices ==
    { f \in [Particle -> RawExps] : \A i \in Particle : f[i] \in RawFor(i) }

StepFinish ==
    /\ pc = "loop"
    /\ LoopExit
    /\ \E raw \in RawChoices :
       LET why == ExitReason
           count == IF why = "max"
                    THEN integrator_iterations_max_exceeded + 1
                    ELSE integrator_iterations_max_exceeded
           cls == {i \in Particle : InClass(i)}
           px == [i \in Particle |->
                    Kahan(x0[i], csx[i], PosIncrement(b[i], a0[i], v0[i], dt))]
           pv == [i \in Particle |->
                    Kahan(v0[i], csv[i], VelIncrement(b[i], a0[i], dt))]
           l == 0 - dtexp
           n == dtexp_substep[l]
           xnew == [i \in Particle |-> IF i \in cls THEN px[i][1] ELSE x0[i]]
           exps == [i \in Particle |-> NewExp(i, raw[i])]
           exmin == MinExpOf(exps)
           adv == Advance(dtexp, dtexp_substep, t, dt, exmin, integrator_max_dt)
       IN /\ integrator_iterations_max_exceeded' = count
          /\ warnings' = (IF why = "max" /\ WarnNow(count)
                          THEN warnings + 1 ELSE warnings)
          /\ csx' = [i \in Particle |-> IF i \in cls THEN px[i][2] ELSE csx[i]]
          /\ csv' = [i \in Particle |-> IF i \in cls THEN pv[i][2] ELSE csv[i]]
          /\ x0' = xnew
          /\ v0' = [i \in Particle |-> IF i \in cls THEN pv[i][1] ELSE v0[i]]
          /\ er' = [i \in Particle |-> IF i \in cls THEN e[i] ELSE er[i]]
          /\ br' = [i \in Particle |-> IF i \in cls THEN b[i] ELSE br[i]]
          /\ particles' = [i \in Particle |->
                [particles[i] EXCEPT
                    !.x = xnew[i],
                    !.v = IF i \in cls THEN pv[i][1] ELSE @,
                    !.tdone = IF i \in cls THEN Tdone(t, dt) ELSE @,
                    !.dtdone = IF i \in cls THEN Dtdone(dt) ELSE @,
                    !.xpast[l][n] = xnew[i],
                    !.dtexp = exps[i]]]
          /\ dtexp_min' = exmin
          /\ dtexp' = adv[1]
          /\ dtexp_substep' = adv[2]
          /\ t' = adv[3]
          /\ exceededSteps' = (IF why = "max" THEN exceededSteps + 1
                               ELSE exceededSteps)
          /\ nanSteps' = (IF \E i \in cls : kernel[i] = "nan"
                          THEN nanSteps + 1 ELSE nanSteps)
          /\ nadv' = [i \in Particle |-> IF i \in cls THEN nadv[i] + 1 ELSE nadv[i]]
          /\ gap' = [i \in Particle |->
                       IF i \in cls
                       THEN [j \in Particle |-> nadv[j] - mark[i][j]]
                       ELSE gap[i]]
          /\ mark' = [i \in Particle |-> IF i \in cls THEN nadv ELSE mark[i]]
    /\ steps' = steps + 1
    \* the function returns: its locals are gone
    /\ predictor_corrector_error' = PCE_INIT
    /\ predictor_corrector_error_last' = PCE_LAST_INIT
    /\ iterations' = 0
    /\ kernel' = [i \in Particle |-> "zero"]
    /\ pc' = "idle"
    /\ UNCHANGED <<cfgvars, dt, N3allocated, b, e, a0, at>>

Next == StepBegin \/ Iterate \/ StepFinish

\* ------------------------------------------------------------------------
\* Specifications
\* ------------------------------------------------------------------------

\* One or two particles of any classes, adaptive or not, a few steps.  A
\* single particle meets every behaviour of the kernel; of two particles the
\* first meets a zero or a freely drawn kernel, the second a zero kernel.
Init ==
    \E cls \in ClassVecs1 \cup ClassVecs2, eps \in {0, 1} :
        InitWith(cls, Ones(cls), Zeros(cls), eps, 0, 256, TRUE, FALSE,
                 [i \in 1..Len(cls) |->
                    IF i > 1 THEN {"zero"}
                    ELSE IF Len(cls) > 1 THEN {"zero", "free"} ELSE Modes],
                 MaxSteps)

Spec == Init /\ [][Next]_vars

\* Two or three particles of any classes under zero forces, with and without
\* the step controller and with and without a minimum step: the sub-step
\* hierarchy over more than one full step of class 0.
InitHier ==
    \E cls \in ClassVecs2 \cup ClassVecs3, eps \in {0, 1}, mindt \in {0, 64} :
        InitWith(cls, Ones(cls), Zeros(cls), eps, mindt, 256, TRUE, FALSE,
                 Only(cls, "zero"), MaxHierSteps)

SpecHier == InitHier /\ [][Next]_vars

\* One particle of class 0 whose kernel, step by step, is zero, returns NaN
\* or never lets the loop converge: a run long enough for the warning.
InitLong ==
    \E eps \in {0, 1} :
        InitWith(<<0>>, <<1>>, <<0>>, eps, 0, 256, TRUE, FALSE,
                 <<{"zero", "nan", "stiff"}>>, MaxLongSteps)

SpecLong == InitLong /\ [][Next]_vars

\* One particle of class 0 drifting freely.
InitDrift ==
    \E v \in {0, 1, 5}, x \in {0, 256}, maxdt \in {256, 512}, eps \in {0, 1} :
        InitWith(<<0>>, <<v>>, <<x>>, eps, 0, maxdt, TRUE, FALSE,
                 <<{"zero"}>>, MaxDriftSteps)

SpecDrift == InitDrift /\ [][Next]_vars

\* Two particles of any classes, with and without additional forces and
\* with either setting of integrator_force_is_velocitydependent; the second
\* particle may carry a non-zero acceleration.
InitForces ==
    \E cls \in ClassVecs2, eps \in {0, 1}, veldep \in BOOLEAN, addf \in BOOLEAN :
        InitWith(cls, Ones(cls), Zeros(cls), eps, 0, 256, veldep, addf,
                 <<{"zero"}, {"zero", "free"}>>, MaxSteps)

SpecForces == InitForces /\ [][Next]_vars

\* ------------------------------------------------------------------------
\* Properties
\* ------------------------------------------------------------------------

Returns == pc = "loop" /\ pc' = "idle"
Enters == pc = "idle" /\ pc' = "loop"

\* C1: a call that starts at time t and uses step length dt leaves every
\* particle whose dtexp equalled the global dtexp during the step with
\* tdone = t + dt and dtdone = dt.
AdvancedAreStamped ==
    [][Returns =>
         \A i \in Particle :
            InClass(i) => /\ particles'[i].tdone = t + dt
                          /\ particles'[i].dtdone = dt]_vars

\* a step has stamped one particle and left another, of another class, alone
SomeStampedSomeNot ==
    /\ pc = "idle"
    /\ steps >= 2
    /\ \E i, j \in Particle :
          /\ particles[i].tdone > 0
          /\ particles[i].dtdone = dt
          /\ particles[j].dtdone = 0

\* C2: with fixed classes (integrator_epsilon = 0), between two consecutive
\* advances of a particle of class c there are exactly 8 advances of a
\* particle of class c-1, and never more than 8 since its last advance.
EightFinePerCoarse ==
    integrator_epsilon = 0 =>
        \A i, j \in Particle :
            particles[i].dtexp = particles[j].dtexp + 1 =>
                /\ nadv[i] >= 2 => gap[i][j] = 8
                /\ nadv[i] >= 1 => nadv[j] - mark[i][j] <= 8

\* the class-0 particle of a pair of classes 0 and -1 has been advanced
\* three times, the other 8 times between its last two advances
CoarseAdvancedAgain ==
    /\ integrator_epsilon = 0
    /\ N = 2
    /\ initial[1].dtexp = 0
    /\ initial[2].dtexp = 0 - 1
    /\ nadv[1] = 3
    /\ gap[1][2] = 8
    /\ nadv[2] = 16

\* C3: after a step, every particle of the store has dtexp in [-2, 0],
\* whether or not it belongs to the class just advanced.
ClassesInRange ==
    (pc = "idle" /\ steps >= 1) =>
        \A i \in Particle :
            particles[i].dtexp >= 0 - 2 /\ particles[i].dtexp <= 0

\* the controller has put an advanced particle in the lowest class
ControllerChoseLowest ==
    /\ pc = "idle"
    /\ integrator_epsilon > 0
    /\ \E i \in Particle :
          /\ particles[i].dtdone # 0
          /\ ErrMaxNormal(b[i][7], at[i])
          /\ particles[i].dtexp = 0 - 2
          /\ particles[i].tdone = t

\* C4: the step lengths of two consecutive steps differ by at most the
\* factor of safety_factor: 0.25 <= dt_next / dt_prev <= 4.
ConsecutiveStepsWithinFactor ==
    [][(Enters /\ steps >= 1) => (dt <= 4 * dt' /\ dt' <= 4 * dt)]_vars

\* C5: when integrator_min_dt > 0, the step length of every step is at least
\* integrator_min_dt.
StepAtLeastMinDt ==
    (integrator_min_dt > 0 /\ pc = "loop") => dt >= integrator_min_dt

\* C6: the predictor-corrector loop ends after at least 1 and at most 12
\* iterations, whatever the kernel returns, and ends on the oscillation
\* criterion only after at least 3 iterations.
LoopBounded ==
    /\ iterations >= 0
    /\ iterations <= 12
    /\ (pc = "loop" /\ iterations = 12) => LoopExit
    /\ (pc = "loop" /\ LoopExit) =>
          /\ iterations >= 1
          /\ ExitReason = "osc" => iterations >= 3

\* the loop ends on the oscillation criterion
LoopEndsOscillating ==
    /\ pc = "loop"
    /\ LoopExit
    /\ ExitReason = "osc"
    /\ iterations = 3

\* C7: the warning is written exactly once, in the step in which the count
\* of steps that did 12 iterations without converging becomes 10; such a
\* step is committed all the same and the call returns.
WarnedOnceAtTen ==
    /\ [](/\ integrator_iterations_max_exceeded = exceededSteps
          /\ warnings = (IF exceededSteps >= 10 THEN 1 ELSE 0))
    /\ [][(Returns /\ ExitReason = "max") =>
             /\ exceededSteps' = exceededSteps + 1
             /\ steps' = steps + 1
             /\ \A i \in Particle :
                   InClass(i) => /\ particles'[i].tdone = t + dt
                                 /\ particles'[i].dtdone = dt
                                 /\ nadv'[i] = nadv[i] + 1]_vars

\* more than ten steps have not converged
ManyStepsExhausted ==
    /\ pc = "idle"
    /\ exceededSteps = 12
    /\ warnings = 1
    /\ particles[1].tdone = t

\* C8 as stated: when the kernel returns NaN to a particle of the current
\* class in every step (integrator_epsilon > 0), the warning is written
\* once 10 such steps have occurred.
NanStepsWarn ==
    (integrator_epsilon > 0 /\ pc = "idle" /\ nanSteps = steps /\ steps >= 10)
        => warnings >= 1

\* C8: a step in which the kernel returns NaN to every particle of the
\* current class ends its loop after one iteration on the convergence test,
\* is not counted as non-converged and sets those particles' dtexp to 0
\* (integrator_epsilon > 0); a run of such steps writes no warning.
NanStepsPassSilently ==
    /\ [](/\ (/\ pc = "loop"
              /\ iterations >= 1
              /\ \E i \in Particle : InClass(i)
              /\ \A i \in Particle : InClass(i) => kernel[i] = "nan")
             => (iterations = 1 /\ ExitReason = "conv" /\ LoopExit)
          /\ nanSteps = steps =>
                (warnings = 0 /\ integrator_iterations_max_exceeded = 0))
    /\ [][(Returns /\ integrator_epsilon > 0) =>
             \A i \in Particle :
                (InClass(i) /\ kernel[i] = "nan") => particles'[i].dtexp = 0]_vars

\* ten and more steps, each with NaN from the kernel, and no warning
ManyNanSteps ==
    /\ pc = "idle"
    /\ integrator_epsilon > 0
    /\ nanSteps = steps
    /\ steps >= 10
    /\ warnings = 0
    /\ particles[1].x = NaN

\* C9: at the entry of a step whose dt equals the dtdone of a particle that
\* has a previous step (q = 1), b_j - e_j = br_j - er_j for j = 0..6, with
\* br, er as saved by the previous step.
WarmStartIsBD ==
    \A i \in Particle :
        (/\ pc = "loop"
         /\ iterations = 0
         /\ IsNormal(particles[i].dtdone)
         /\ dt = particles[i].dtdone
         /\ \A j \in 1..7 : e[i][j][2] = e[i][j][3] /\ er[i][j][2] = er[i][j][3])
        => \A j \in 1..7 :
              FSub(b[i][j], e[i][j][1]) = FSub(br[i][j], er[i][j][1])

\* C10 as stated: one particle of class 0 with velocity v under zero forces
\* and integrator_max_dt = h is, after k steps, at its initial position plus
\* k*h*v with its velocity unchanged and csx = csv = 0.
DriftOf(k) == k * integrator_max_dt * initial[1].v

DriftIsExact ==
    (pc = "idle" /\ N = 1) =>
        /\ particles[1].x = initial[1].x + DriftOf(steps)
        /\ particles[1].v = initial[1].v
        /\ csx[1] = 0
        /\ csv[1] = 0

\* C10: the velocity is unchanged and csv = 0 after every step; the position
\* is the initial position x plus k*h*v, and csx = 0, as long as the sums
\* x + j*h*v, j <= k, are doubles; otherwise csx holds what the sum lost.
SumsAreExact(k) ==
    \A j \in 0..k : Fl(initial[1].x + DriftOf(j)) = initial[1].x + DriftOf(j)

DriftIsExactWhileRepresentable ==
    (pc = "idle" /\ N = 1) =>
        /\ particles[1].v = initial[1].v
        /\ csv[1] = 0
        /\ SumsAreExact(steps) =>
              /\ particles[1].x = initial[1].x + DriftOf(steps)
              /\ csx[1] = 0

\* ten steps of drift
DriftedTenSteps ==
    /\ pc = "idle"
    /\ steps = 10
    /\ initial[1].v = 1
    /\ initial[1].x = 256
    /\ particles[1].x = 256 + 10 * integrator_max_dt
    /\ csx[1] = 0

\* C11: a step at global class L = -dtexp increments dtexp_substep[L]; if it
\* reaches 8 it is reset to 0 and the global class becomes dtexp + 1, or
\* dtexp_min when L = 0; otherwise the global class becomes dtexp_min.  So
\* every dtexp_substep entry is in 0..7 and dtexp <= 0 between steps.
SubStepBookkeeping ==
    /\ [](/\ \A l \in Levels : dtexp_substep[l] >= 0 /\ dtexp_substep[l] <= 7
          /\ dtexp <= 0)
    /\ [][Returns =>
            LET L == 0 - dtexp
                c == dtexp_substep[L] + 1
            IN IF c = 8
               THEN /\ dtexp_substep' = [dtexp_substep EXCEPT ![L] = 0]
                    /\ dtexp' = (IF L = 0 THEN dtexp_min' ELSE dtexp + 1)
               ELSE /\ dtexp_substep' = [dtexp_substep EXCEPT ![L] = c]
                    /\ dtexp' = dtexp_min']_vars

\* a level below the outermost has just been completed for the second time
LevelCompletedTwice ==
    /\ pc = "idle"
    /\ dtexp_min = 0 - 2
    /\ dtexp = 0 - 1
    /\ dtexp_substep[2] = 0
    /\ dtexp_substep[1] = 1
    /\ steps > 9

\* C12: a step changes no committed state of a particle outside the current
\* class: its position, velocity, tdone, dtdone, dtexp and its br and er
\* entries are after the step what they were at the entry (x0, v0 hold the
\* position and velocity of the entry), whatever the setting of
\* integrator_force_is_velocitydependent and problem_additional_forces.
OthersUntouched ==
    [][Returns =>
         \A i \in Particle :
            ~InClass(i) =>
                /\ particles'[i].x = x0[i]
                /\ particles'[i].v = v0[i]
                /\ particles'[i].tdone = particles[i].tdone
                /\ particles'[i].dtdone = particles[i].dtdone
                /\ particles'[i].dtexp = particles[i].dtexp
                /\ br'[i] = br[i]
                /\ er'[i] = er[i]]_vars

\* C13 as stated: the simulation time t never decreases: t after a step is
\* greater than or equal to t before it.
TimeNeverDecreases == [][Returns => t' >= t]_vars

\* C13: a step adds its dt to t, and a step that completes the 8 sub-steps
\* of a level below the outermost then takes back the step length of the
\* next coarser level, so that t after such a step is below t before it;
\* after every other step t has grown by dt > 0.
CompletesInnerLevel == dtexp < 0 /\ dtexp_substep[0 - dtexp] = SubSteps - 1

TimeRewindsAtLevelEnd ==
    [][Returns =>
         /\ dt > 0
         /\ IF CompletesInnerLevel
            THEN /\ t' = t + dt - StepLength(integrator_max_dt, dtexp + 1,
                                             dtexp_substep')
                 /\ t' < t
            ELSE t' = t + dt]_vars

\* the eighth sub-step of level 1 has been done and t is back where the
\* step of level 0 before them had begun, plus the eight sub-steps
TimeTakenBack ==
    /\ pc = "idle"
    /\ steps = 9
    /\ dtexp = 0
    /\ dtexp_min = 0 - 1
    /\ t = 8 * dt
    /\ t < integrator_max_dt + 7 * dt

\* C14: whenever an iteration takes a particle's position from the cache
\* xpast[-dtexp+1][n], n = 1..7 (the particle's dtexp is below the global
\* dtexp), that entry has been written by an earlier step of the run.
CacheReadAfterWrite ==
    [][(pc = "loop" /\ pc' = "loop") =>
         \A i \in Particle :
            particles[i].dtexp < dtexp =>
                \A n \in 1..7 : particles[i].xpast[1 - dtexp][n] # Unset]_vars

\* C15 as stated: in a run that starts from global class 0 with all
\* particles in class 0, or with fixed classes (integrator_epsilon = 0), at
\* the entry of every step some particle has dtexp equal to the global dtexp.
StartsAsClaimed ==
    integrator_epsilon = 0 \/ \A i \in Particle : initial[i].dtexp = 0

EveryStepAdvancesSome ==
    (StartsAsClaimed /\ pc = "loop") => \E i \in Particle : InClass(i)

\* C15: a step whose global class is the dtexp_min the previous step found
\* has a particle of that class; the first step of a run, and a step whose
\* class was reached by going one level up, may have none.
DescentFindsParticle ==
    (pc = "idle" /\ steps >= 1 /\ dtexp = dtexp_min) =>
        \E i \in Particle : InClass(i)

\* the run has gone down to an occupied class below 0
WentDownToOccupiedClass ==
    /\ pc = "idle"
    /\ steps >= 1
    /\ dtexp = dtexp_min
    /\ dtexp < 0
    /\ \E i \in Particle : InClass(i)
    /\ \E i \in Particle : ~InClass(i)

====
